---------------------------- MODULE Spec2Model ----------------------------
(***************************************************************************)
(* Model of the two scripts under src/embeddings:                          *)
(*                                                                         *)
(*   sqlparser-rs-text-creator.py  the repository flattener: walks a      *)
(*       directory tree, writes one block per file to output.txt, reads   *)
(*       the file back, removes one literal text and rewrites the file;   *)
(*   sqlparser-rs-embedding.py     the VectorStore stub class.             *)
(*                                                                         *)
(* Text is a sequence of one-character strings, so that concatenation,    *)
(* substring search and replacement are computed, not assumed.            *)
(***************************************************************************)
EXTENDS Integers, Sequences, FiniteSets

VARIABLES
    fs,               \* the directory tree under repo_path (input)
    text_to_remove,   \* the literal removal text (input)
    output,           \* content of the file output_file_path on disk
    prev,             \* what output held when the current run started
    reran,            \* the script has been run on this tree before
    pc,               \* position of the flattener script
    k,                \* number of walked files the loop has handled
    blocks,           \* the blocks written in this run: <<path, contents>>
    file_contents,    \* text-creator.py:43
    cleaned_contents, \* text-creator.py:46
    error,            \* the exception that ended the flattener run
    vs_pc,            \* position inside VectorStore.__init__
    vs_args,          \* <<name, docs_loc>> the constructor was called with
    vs_error,         \* the exception that ended the constructor
    db_inits          \* executions of the body of initialize_db

vars == <<fs, text_to_remove, output, prev, reran, pc, k, blocks, file_contents,
          cleaned_contents, error, vs_pc, vs_args, vs_error, db_inits>>

flat_vars == <<fs, text_to_remove, output, prev, reran, pc, k, blocks,
               file_contents, cleaned_contents, error>>

vs_vars == <<vs_pc, vs_args, vs_error, db_inits>>

---------------------------------------------------------------------------
(* Bounds of the model. *)

\* Most files in one directory tree.
MaxFiles == 2

---------------------------------------------------------------------------
(* Text helpers. *)

NL == "\n"
CR == "\r"
Dash == "-"
Slash == "/"

\* A byte that is not valid in the encoding the file is read with.
BadByte == "<ff>"

RECURSIVE Concat(_)
\* The concatenation of a sequence of texts.
Concat(ts) == IF ts = <<>> THEN <<>> ELSE Head(ts) \o Concat(Tail(ts))

\* old is a prefix of s.
StartsWith(s, old) ==
    /\ Len(old) <= Len(s)
    /\ SubSeq(s, 1, Len(old)) = old

\* s without its first n characters.
Drop(s, n) == SubSeq(s, n + 1, Len(s))

RECURSIVE Repeat(_, _)
\* Python's c * n for a one-character string c.
Repeat(c, n) == IF n = 0 THEN <<>> ELSE <<c>> \o Repeat(c, n - 1)

RECURSIVE DecodeIgnore(_)
\* open(..., errors='ignore'): bytes that do not decode are dropped.
DecodeIgnore(bytes) ==
    IF bytes = <<>> THEN <<>>
    ELSE IF Head(bytes) = BadByte THEN DecodeIgnore(Tail(bytes))
    ELSE <<Head(bytes)>> \o DecodeIgnore(Tail(bytes))

RECURSIVE UniversalNewlines(_)
\* Text mode with the default newline=None: "\r\n" and a lone "\r" are
\* read as "\n".
UniversalNewlines(s) ==
    IF s = <<>> THEN <<>>
    ELSE IF Head(s) = CR
         THEN IF Len(s) >= 2 /\ s[2] = NL
              THEN <<NL>> \o UniversalNewlines(Drop(s, 2))
              ELSE <<NL>> \o UniversalNewlines(Tail(s))
    ELSE <<Head(s)>> \o UniversalNewlines(Tail(s))

\* file_contents.read() of a tree file opened with open(path, 'r',
\* errors='ignore').
ReadIgnoringErrors(bytes) == UniversalNewlines(DecodeIgnore(bytes))

\* output_file.readline(): the text up to and including the first newline.
ReadFirstLine(bytes) ==
    LET text == UniversalNewlines(bytes)
    IN  IF \E i \in 1..Len(text) : text[i] = NL
        THEN SubSeq(text, 1, CHOOSE i \in 1..Len(text) :
                                 /\ text[i] = NL
                                 /\ \A j \in 1..(i - 1) : text[j] # NL)
        ELSE text

\* output_file.read() of the output file opened with open(path, 'r').
ReadText(bytes) == UniversalNewlines(bytes)

RECURSIVE ReplaceEmptyDeletes(_, _, _)
\* A replacement that lets an empty pattern match, and consume, every
\* character.
ReplaceEmptyDeletes(s, old, new) ==
    IF s = <<>> THEN <<>>
    ELSE IF old = <<>> THEN new \o ReplaceEmptyDeletes(Tail(s), old, new)
    ELSE IF StartsWith(s, old)
         THEN new \o ReplaceEmptyDeletes(Drop(s, Len(old)), old, new)
    ELSE <<Head(s)>> \o ReplaceEmptyDeletes(Tail(s), old, new)

RECURSIVE ReplaceFirstOnly(_, _, _)
\* A replacement with a count limit of one.
ReplaceFirstOnly(s, old, new) ==
    IF old = <<>> THEN new \o s
    ELSE IF s = <<>> THEN <<>>
    ELSE IF StartsWith(s, old) THEN new \o Drop(s, Len(old))
    ELSE <<Head(s)>> \o ReplaceFirstOnly(Tail(s), old, new)

RECURSIVE Replace(_, _, _)
\* Python's s.replace(old, new): one scan from the left, every occurrence
\* that does not overlap an earlier one, no count limit.  An empty old
\* matches before every character and at the end.
Replace(s, old, new) ==
    IF old = <<>>
    THEN IF s = <<>> THEN new
         ELSE new \o <<Head(s)>> \o Replace(Tail(s), old, new)
    ELSE IF s = <<>> THEN <<>>
    ELSE IF StartsWith(s, old)
         THEN new \o Replace(Drop(s, Len(old)), old, new)
    ELSE <<Head(s)>> \o Replace(Tail(s), old, new)

---------------------------------------------------------------------------
(* Constants of sqlparser-rs-text-creator.py. *)

DS_Store == <<".", "D", "S", "_", "S", "t", "o", "r", "e">>

\* text-creator.py:17
bad_list == {DS_Store}

---------------------------------------------------------------------------
(* The inputs: directory trees, removal texts, earlier output files. *)

FileNames == {<<"a">>, DS_Store, Tail(DS_Store)}

SubDirNames == {<<"d">>, DS_Store}

\* Raw file contents: empty; "ab" around an undecodable byte; "aabb";
\* a line of four dashes with a CR LF line end.
RawContents ==
    { <<>>,
      <<"a", BadByte, "b">>,
      <<"a", "a", "b", "b">>,
      <<Dash, Dash, Dash, Dash, CR, NL, "a">> }

\* Removal texts: empty, "ab", and the end of a separator line.
Literals == { <<>>, <<"a", "b">>, <<Dash, NL>> }

\* What output.txt may hold before the first run: text no run on the tree
\* writes.
PrevOutputs == { <<"o", "l", "d", NL>> }

ReadableFiles == [name : FileNames, bytes : RawContents, readable : {TRUE}]

\* The listings of one directory with n files: scandir order is any
\* order, and names within a directory are distinct.
Listings(n) ==
    { s \in [1..n -> ReadableFiles] :
        \A i, j \in 1..n : i # j => s[i].name # s[j].name }

\* The permission faults a tree with n0 files in the root and n1 in the
\* subdirectory can carry; at most one per tree.
Faults(n0, n1) ==
    {<<"none", 0>>, <<"root_unlistable", 0>>, <<"sub_unlistable", 0>>}
        \cup {<<"root_file_unreadable", j>> : j \in 1..n0}
        \cup {<<"sub_file_unreadable", j>> : j \in 1..n1}

Deny(files, kind, fault) ==
    [j \in 1..Len(files) |->
        IF fault = <<kind, j>>
        THEN [files[j] EXCEPT !.readable = FALSE] ELSE files[j]]

\* The tree: the directories in the order a top-down walk meets them, each
\* with its path below the root, whether it can be listed, and its files.
MakeTree(f0, f1, dn, fault) ==
    [rootExists |-> TRUE,
     dirs |-> << [path |-> <<>>,
                  listable |-> fault[1] # "root_unlistable",
                  files |-> Deny(f0, "root_file_unreadable", fault)],
                 [path |-> <<dn>>,
                  listable |-> fault[1] # "sub_unlistable",
                  files |-> Deny(f1, "sub_file_unreadable", fault)] >>]

\* repo_path names no directory.
MissingRoot == [rootExists |-> FALSE, dirs |-> <<>>]

---------------------------------------------------------------------------
(* The directory walk, text-creator.py:20-21. *)

\* path p is d or lies above d.
IsPrefix(p, d) == Len(p) <= Len(d) /\ SubSeq(d, 1, Len(p)) = p

\* os.walk reaches a directory when the root exists and the directory and
\* every directory above it can be listed.
Reached(tree, i) ==
    /\ tree.rootExists
    /\ \A j \in 1..Len(tree.dirs) :
          IsPrefix(tree.dirs[j].path, tree.dirs[i].path)
              => tree.dirs[j].listable

RECURSIVE WalkFrom(_, _)
\* The <<root, file>> pairs of the two nested loops, from directory i on.
WalkFrom(tree, i) ==
    IF i > Len(tree.dirs) THEN <<>>
    ELSE (IF Reached(tree, i)
          THEN [j \in 1..Len(tree.dirs[i].files) |->
                   [root |-> tree.dirs[i].path, file |-> tree.dirs[i].files[j]]]
          ELSE <<>>)
         \o WalkFrom(tree, i + 1)

\* A walk of the top directory only.
OsWalkTopOnly(tree) ==
    [files |-> IF tree.rootExists /\ tree.dirs[1].listable
               THEN [j \in 1..Len(tree.dirs[1].files) |->
                        [root |-> <<>>, file |-> tree.dirs[1].files[j]]]
               ELSE <<>>,
     error |-> "none"]

\* os.walk(repo_path) as the loops consume it.  It is called without
\* onerror, so a directory that is missing or cannot be listed yields
\* nothing and raises nothing.
OsWalk(tree) == [files |-> WalkFrom(tree, 1), error |-> "none"]

RECURSIVE JoinPath(_)
\* The components of a path joined by "/".
JoinPath(parts) ==
    IF Len(parts) = 1 THEN Head(parts)
    ELSE Head(parts) \o <<Slash>> \o JoinPath(Tail(parts))

\* os.path.relpath(os.path.join(root, file), repo_path), text-creator.py:23-24.
relative_file_path(root, file) == JoinPath(Append(root, file))

\* A membership test on the relative path instead of the file name.
IsBadPath(root, file) == relative_file_path(root, file) \in bad_list

\* The test of text-creator.py:22, negated: the file is left out.
IsBad(root, file) == file \in bad_list

\* A block without the newline after the content.
BlockNoNewline(path, contents) ==
    (Repeat(Dash, 4) \o <<NL>>) \o (path \o <<NL>>) \o contents

\* The three writes of text-creator.py:27-29.
Block(path, contents) ==
    (Repeat(Dash, 4) \o <<NL>>) \o (path \o <<NL>>) \o (contents \o <<NL>>)

\* open(path, 'a'): the file keeps what it held.
OpenAppend(old) == old

\* open(path, 'w'): the file is truncated.
OpenWrite(old) == <<>>

\* The replacement with a space put where the text was.
RemoveTextLeavingSpace(content, text) == Replace(content, text, <<" ">>)

\* text-creator.py:46.
RemoveText(content, text) == Replace(content, text, <<>>)

---------------------------------------------------------------------------
(* Constants of sqlparser-rs-embedding.py. *)

\* The attributes the class VectorStore defines.
VectorStoreMethods == {"__init__", "initialize_db"}

\* The call of embedding.py:31 with the method name spelled as defined.
CalledMethodAsDefined == "initialize_db"

\* The method name __init__ calls on self, embedding.py:31.
CalledMethod == "intialize_db"

\* Arguments the constructor is called with.
StoreNames == {"", "sqlparser"}
DocsLocs == {"output.txt"}

---------------------------------------------------------------------------
(* Initial states. *)

Init ==
    /\ \/ fs = MissingRoot
       \/ \E n0 \in 0..MaxFiles : \E n1 \in 0..(MaxFiles - n0) :
             \E f0 \in Listings(n0), f1 \in Listings(n1),
                dn \in SubDirNames, fault \in Faults(n0, n1) :
                fs = MakeTree(f0, f1, dn, fault)
    /\ text_to_remove \in Literals
    /\ output \in PrevOutputs
    /\ prev = output
    /\ reran = FALSE
    /\ pc = "start"
    /\ k = 0
    /\ blocks = <<>>
    /\ file_contents = <<>>
    /\ cleaned_contents = <<>>
    /\ error = "none"
    /\ vs_pc = "idle"
    /\ vs_args = <<>>
    /\ vs_error = "none"
    /\ db_inits = 0

---------------------------------------------------------------------------
(* The flattener, text-creator.py:37-53. *)

\* The walked file the inner loop handles next.
Current == OsWalk(fs).files[k + 1]

\* text-creator.py:38 and the entry into the loops of process_repository:
\* the output file is opened for writing, then the walk starts.
OpenOutput ==
    /\ pc = "start"
    /\ output' = OpenWrite(output)
    /\ IF OsWalk(fs).error = "none"
       THEN pc' = "walking" /\ error' = error
       ELSE pc' = "crashed" /\ error' = OsWalk(fs).error
    /\ UNCHANGED <<fs, text_to_remove, prev, reran, k, blocks, file_contents,
                   cleaned_contents>>
    /\ UNCHANGED vs_vars

\* text-creator.py:22, test false: a file on bad_list is passed over.
SkipFile ==
    /\ pc = "walking"
    /\ k < Len(OsWalk(fs).files)
    /\ IsBad(Current.root, Current.file.name)
    /\ k' = k + 1
    /\ UNCHANGED <<fs, text_to_remove, output, prev, reran, pc, blocks,
                   file_contents, cleaned_contents, error>>
    /\ UNCHANGED vs_vars

\* text-creator.py:23-29: the file is read and its block is written.
WriteBlock ==
    /\ pc = "walking"
    /\ k < Len(OsWalk(fs).files)
    /\ ~IsBad(Current.root, Current.file.name)
    /\ Current.file.readable
    /\ LET path == relative_file_path(Current.root, Current.file.name)
           contents == ReadIgnoringErrors(Current.file.bytes)
       IN  /\ output' = output \o Block(path, contents)
           /\ blocks' = Append(blocks, <<path, contents>>)
    /\ k' = k + 1
    /\ UNCHANGED <<fs, text_to_remove, prev, reran, pc, file_contents,
                   cleaned_contents, error>>
    /\ UNCHANGED vs_vars

\* text-creator.py:25: open() raises for a file that may not be read;
\* nothing catches it, the with statement of line 38 closes the output
\* file, and the process ends.
OpenFails ==
    /\ pc = "walking"
    /\ k < Len(OsWalk(fs).files)
    /\ ~IsBad(Current.root, Current.file.name)
    /\ ~Current.file.readable
    /\ pc' = "crashed"
    /\ error' = "PermissionError"
    /\ UNCHANGED <<fs, text_to_remove, output, prev, reran, k, blocks,
                   file_contents, cleaned_contents>>
    /\ UNCHANGED vs_vars

\* The walk is exhausted: process_repository returns and the with
\* statement of text-creator.py:38 closes the output file.
FinishWalk ==
    /\ pc = "walking"
    /\ k = Len(OsWalk(fs).files)
    /\ pc' = "flattened"
    /\ UNCHANGED <<fs, text_to_remove, output, prev, reran, k, blocks,
                   file_contents, cleaned_contents, error>>
    /\ UNCHANGED vs_vars

\* text-creator.py:42-43.
ReadBack ==
    /\ pc = "flattened"
    /\ file_contents' = ReadText(output)
    /\ pc' = "read"
    /\ UNCHANGED <<fs, text_to_remove, output, prev, reran, k, blocks,
                   cleaned_contents, error>>
    /\ UNCHANGED vs_vars

\* text-creator.py:46.
ReplaceText ==
    /\ pc = "read"
    /\ cleaned_contents' = RemoveText(file_contents, text_to_remove)
    /\ pc' = "replaced"
    /\ UNCHANGED <<fs, text_to_remove, output, prev, reran, k, blocks,
                   file_contents, error>>
    /\ UNCHANGED vs_vars

\* text-creator.py:52-53.
WriteBack ==
    /\ pc = "replaced"
    /\ output' = OpenWrite(output) \o cleaned_contents
    /\ pc' = "done"
    /\ UNCHANGED <<fs, text_to_remove, prev, reran, k, blocks, file_contents,
                   cleaned_contents, error>>
    /\ UNCHANGED vs_vars

\* The script is started again on the same tree; the output file holds
\* what the run before left in it.
Rerun ==
    /\ pc \in {"done", "crashed"}
    /\ vs_pc = "idle"
    /\ reran' = TRUE
    /\ prev' = output
    /\ pc' = "start"
    /\ k' = 0
    /\ blocks' = <<>>
    /\ file_contents' = <<>>
    /\ cleaned_contents' = <<>>
    /\ error' = "none"
    /\ UNCHANGED <<fs, text_to_remove, output>>
    /\ UNCHANGED vs_vars

---------------------------------------------------------------------------
(* The VectorStore stub, embedding.py:28-34.  The scripts are run by hand,  *)
(* one after the other; the class is constructed once a flattener run has  *)
(* left its output file.                                                    *)

\* embedding.py:29-30: the constructor is entered and builds its embedder.
\* No embedding is requested: the embedder is only constructed.
VectorStoreInit(name, docs_loc) ==
    /\ pc = "done"
    /\ vs_pc = "idle"
    /\ vs_args' = <<name, docs_loc>>
    /\ vs_pc' = "embedder_built"
    /\ UNCHANGED <<vs_error, db_inits>>
    /\ UNCHANGED flat_vars

\* embedding.py:31: the attribute CalledMethod is looked up on self.  A
\* name the class defines runs the body of initialize_db (embedding.py:33-34,
\* pass) and the constructor returns; any other name raises AttributeError.
CallInitializeDb ==
    /\ vs_pc = "embedder_built"
    /\ IF CalledMethod \in VectorStoreMethods
       THEN /\ db_inits' = db_inits + 1
            /\ vs_pc' = "constructed"
            /\ vs_error' = vs_error
       ELSE /\ vs_error' = "AttributeError"
            /\ vs_pc' = "raised"
            /\ db_inits' = db_inits
    /\ UNCHANGED vs_args
    /\ UNCHANGED flat_vars

Next ==
    \/ OpenOutput
    \/ SkipFile
    \/ WriteBlock
    \/ OpenFails
    \/ FinishWalk
    \/ ReadBack
    \/ ReplaceText
    \/ WriteBack
    \/ Rerun
    \/ \E name \in StoreNames, docs_loc \in DocsLocs :
          VectorStoreInit(name, docs_loc)
    \/ CallInitializeDb

Spec == Init /\ [][Next]_vars

---------------------------------------------------------------------------
(* Vocabulary of the properties. *)

\* The positions at which text lit occurs in doc (overlapping ones too).
Occurrences(doc, lit) ==
    {i \in 1..(Len(doc) + 1) :
        /\ i + Len(lit) - 1 <= Len(doc)
        /\ SubSeq(doc, i, i + Len(lit) - 1) = lit}

Min(S) == CHOOSE x \in S : \A y \in S : x <= y

RECURSIVE SplitOn(_, _)
\* The pieces of doc around the occurrences of a non-empty lit, the first
\* occurrence from the left each time.
SplitOn(doc, lit) ==
    IF Occurrences(doc, lit) = {} THEN <<doc>>
    ELSE LET p == Min(Occurrences(doc, lit))
         IN  <<SubSeq(doc, 1, p - 1)>> \o SplitOn(Drop(doc, p + Len(lit) - 1), lit)

RECURSIVE Lines(_)
\* The lines of a text, split at every newline.
Lines(text) ==
    IF Occurrences(text, <<NL>>) = {} THEN <<text>>
    ELSE LET p == Min(Occurrences(text, <<NL>>))
         IN  <<SubSeq(text, 1, p - 1)>> \o Lines(Drop(text, p))

FourDashes == <<"-", "-", "-", "-">>

\* The number of separator lines in a text.
SeparatorLines(text) ==
    Cardinality({i \in 1..Len(Lines(text)) : Lines(text)[i] = FourDashes})

\* The part of a path after its last "/".
FileNameOf(path) ==
    IF Occurrences(path, <<Slash>>) = {} THEN path
    ELSE LET p == CHOOSE x \in Occurrences(path, <<Slash>>) :
                      \A y \in Occurrences(path, <<Slash>>) : y <= x
         IN  Drop(path, p)

RECURSIVE FileCount(_, _)
\* The number of files in the directories of the tree from directory i on.
FileCount(tree, i) ==
    IF i > Len(tree.dirs) THEN 0
    ELSE Len(tree.dirs[i].files) + FileCount(tree, i + 1)

\* Every directory of the tree exists and can be listed.
Walkable(tree) ==
    /\ tree.rootExists
    /\ \A i \in 1..Len(tree.dirs) : tree.dirs[i].listable

\* The root is missing, or a directory cannot be listed.
TraversalFails(tree) == ~Walkable(tree)

\* No file of the tree carries a name of the excluded-name set.
NoExcludedNames(tree) ==
    \A i \in 1..Len(tree.dirs) : \A j \in 1..Len(tree.dirs[i].files) :
        tree.dirs[i].files[j].name \notin {DS_Store}

\* The files the walk yields, in its order.
Walked == OsWalk(fs).files

\* The text a block holds for a walked file: separator line, path line,
\* content and newline, written out character by character.
BlockText(w) ==
    <<"-", "-", "-", "-", "\n">>
        \o relative_file_path(w.root, w.file.name) \o <<"\n">>
        \o ReadIgnoringErrors(w.file.bytes) \o <<"\n">>

\* The walked files that are not excluded by name, among the first n.
RECURSIVE KeptAmong(_, _)
KeptAmong(ws, n) ==
    IF n = 0 THEN <<>>
    ELSE KeptAmong(ws, n - 1)
            \o (IF ws[n].file.name = DS_Store THEN <<>> ELSE <<ws[n]>>)

\* The document the flattener leaves for a tree.
FlatDoc(tree) ==
    LET ws == OsWalk(tree).files
        kept == KeptAmong(ws, Len(ws))
    IN  Concat([i \in 1..Len(kept) |-> BlockText(kept[i])])

---------------------------------------------------------------------------
(* The claims. *)

\* C1: for a tree with N files, none of them named in the excluded-name
\* set, the flattener's output holds exactly N blocks, one per file, in the
\* order in which the directory walk yields the files.  N is the number of
\* files the walk yields, which for a tree whose directories can all be
\* listed is the number of files in the tree; and when no file content has
\* a line of four dashes of its own (content is written unescaped), the
\* output text has exactly N separator lines.
C1_OneBlockPerFileInWalkOrder ==
    (pc = "flattened" /\ NoExcludedNames(fs)) =>
        /\ Len(blocks) = Len(Walked)
        /\ Walkable(fs) => Len(blocks) = FileCount(fs, 1)
        /\ \A i \in 1..Len(blocks) :
              blocks[i][1] = relative_file_path(Walked[i].root, Walked[i].file.name)
        /\ (\A i \in 1..Len(Walked) :
               SeparatorLines(ReadIgnoringErrors(Walked[i].file.bytes)) = 0)
              => SeparatorLines(output) = Len(Walked)

\* C1 witness: a walkable tree with two files in different directories and
\* no excluded name has been flattened into two blocks.
C1_Witness ==
    /\ pc = "flattened"
    /\ NoExcludedNames(fs)
    /\ Walkable(fs)
    /\ Len(fs.dirs[1].files) = 1
    /\ Len(fs.dirs[2].files) = 1
    /\ Len(blocks) = 2
    /\ SeparatorLines(output) = 2

\* C2: a file whose name is exactly an entry of the excluded-name set never
\* gets a block, at any depth; the match is on the file name, not the
\* path, so every other walked file gets one, also below a directory that
\* carries an excluded name.
C2_ExcludedNeverWritten ==
    /\ \A i \in 1..Len(blocks) : FileNameOf(blocks[i][1]) # DS_Store
    /\ pc \in {"walking", "flattened"} =>
          /\ Len(blocks) = Len(KeptAmong(Walked, k))
          /\ output = Concat([i \in 1..Len(blocks) |->
                                 BlockText(KeptAmong(Walked, k)[i])])

\* C2 witness: the walk met a file named .DS_Store in the subdirectory and
\* a file of another name below a directory named .DS_Store; only the
\* second has a block.
C2_Witness ==
    /\ pc = "flattened"
    /\ Walkable(fs)
    /\ fs.dirs[2].path = <<DS_Store>>
    /\ Len(fs.dirs[2].files) = 2
    /\ \E j \in 1..2 : fs.dirs[2].files[j].name = DS_Store
    /\ Len(blocks) = 1
    /\ blocks[1][1] = DS_Store \o <<"/">> \o <<"a">>

\* C3: every block is exactly a line of four dashes, the relative path on
\* its own line, and the content as read followed by one newline, and the
\* output is these blocks with nothing in between.  Content without
\* undecodable bytes and carriage returns is written as it is.
C3_BlockFormat ==
    pc \in {"walking", "flattened"} =>
        /\ output = Concat([i \in 1..Len(blocks) |->
                               <<"-", "-", "-", "-", "\n">> \o blocks[i][1] \o <<"\n">>
                                   \o blocks[i][2] \o <<"\n">>])
        /\ \A i \in 1..Len(blocks) :
              LET w == KeptAmong(Walked, k)[i]
              IN  /\ blocks[i][1] = relative_file_path(w.root, w.file.name)
                  /\ blocks[i][2] = ReadIgnoringErrors(w.file.bytes)
                  /\ (\A n \in 1..Len(w.file.bytes) :
                         w.file.bytes[n] \notin {BadByte, CR})
                        => blocks[i][2] = w.file.bytes

\* C3 witness: a single file d/a holding "aabb" has been written as
\* "----\nd/a\naabb\n".
C3_Witness ==
    /\ pc = "flattened"
    /\ Len(blocks) = 1
    /\ output = <<"-", "-", "-", "-", "\n", "d", "/", "a", "\n",
                  "a", "a", "b", "b", "\n">>


\* C4: a missing root directory, or a directory that cannot be listed
\* during the traversal, ends the run with a fatal, unrecovered error; the
\* run does not complete normally with an output file.
C4_TraversalFailureIsFatal ==
    TraversalFails(fs) => pc # "done"

\* C5 as stated: after the removal of a non-empty literal L the document
\* written back contains no occurrence of L.
C5_NoOccurrenceLeft ==
    (pc = "done" /\ text_to_remove # <<>>) =>
        Occurrences(output, text_to_remove) = {}

\* C5 as amended: the removal of a non-empty literal L deletes every
\* occurrence of L that one scan of D from the left finds, without a count
\* limit: the document written back is the pieces of D around those
\* occurrences joined together, and no piece contains L.  (The joined
\* document can contain L again where two pieces meet.)
C5_EveryScannedOccurrenceRemoved ==
    (pc = "done" /\ text_to_remove # <<>>) =>
        LET pieces == SplitOn(file_contents, text_to_remove)
        IN  /\ cleaned_contents = Concat(pieces)
            /\ output = cleaned_contents
            /\ \A i \in 1..Len(pieces) :
                  Occurrences(pieces[i], text_to_remove) = {}
            /\ Len(output) + (Len(pieces) - 1) * Len(text_to_remove)
                  = Len(file_contents)

\* C5 witness: two occurrences have been removed from the document and the
\* document written back contains the literal again.
C5_Witness ==
    /\ pc = "done"
    /\ text_to_remove = <<"a", "b">>
    /\ Len(SplitOn(file_contents, text_to_remove)) = 3
    /\ Occurrences(output, text_to_remove) # {}

\* C6: when D contains exactly one occurrence of L, the result is the text
\* before the occurrence followed by the text after it.
C6_SingleOccurrenceDeleted ==
    (pc = "done" /\ Cardinality(Occurrences(file_contents, text_to_remove)) = 1) =>
        LET p == Min(Occurrences(file_contents, text_to_remove))
            before == SubSeq(file_contents, 1, p - 1)
            after == SubSeq(file_contents, p + Len(text_to_remove),
                            Len(file_contents))
        IN  /\ cleaned_contents = before \o after
            /\ output = before \o after

\* C6 witness: the document held "ab" once, inside a block, and it is gone.
C6_Witness ==
    /\ pc = "done"
    /\ text_to_remove = <<"a", "b">>
    /\ Cardinality(Occurrences(file_contents, text_to_remove)) = 1
    /\ Len(blocks) = 2
    /\ Len(output) + 2 = Len(file_contents)

\* C7: when L does not occur in D the removal returns D unchanged, and the
\* file rewritten at the end of the run is the file the flattener produced.
C7_AbsentLiteralChangesNothing ==
    /\ (pc \in {"replaced", "done"}
          /\ Occurrences(file_contents, text_to_remove) = {})
         => cleaned_contents = file_contents
    /\ (pc = "done" /\ Occurrences(FlatDoc(fs), text_to_remove) = {})
         => output = FlatDoc(fs)

\* C7 witness: a run whose document has two blocks and no "ab" has
\* rewritten the file with the same text.
C7_Witness ==
    /\ pc = "done"
    /\ text_to_remove = <<"a", "b">>
    /\ Len(blocks) = 2
    /\ Occurrences(file_contents, text_to_remove) = {}
    /\ output = file_contents

\* C8: constructing VectorStore, with any arguments, never returns: the
\* call of intialize_db raises AttributeError, and the body of
\* initialize_db is never executed.
C8_ConstructorRaisesAttributeError ==
    /\ vs_pc \in {"idle", "embedder_built", "raised"}
    /\ db_inits = 0
    /\ (vs_pc = "raised") <=> (vs_error = "AttributeError")
    /\ vs_pc # "raised" => vs_error = "none"

\* C8 witness: a constructor call with a name and a documents location has
\* ended in AttributeError.
C8_Witness ==
    /\ vs_pc = "raised"
    /\ vs_args = <<"sqlparser", "output.txt">>
    /\ vs_error = "AttributeError"

\* C9: the content of the output file after a run is the document of the
\* tree with the literal removed, whatever the file held before the run;
\* a second run on the same tree leaves the content of the first.
C9_OutputRebuiltEveryRun ==
    pc = "done" =>
        /\ output = Replace(FlatDoc(fs), text_to_remove, <<>>)
        /\ reran => output = prev

\* C9 witness: the second run on a tree has completed; the file held the
\* non-empty result of the first run when it started and holds it again.
C9_Witness ==
    /\ pc = "done"
    /\ reran
    /\ prev # <<>>
    /\ Len(blocks) = 2
    /\ output = prev

\* C10: with the empty string as removal text the removal is a no-op: the
\* result is the document, character for character.
C10_EmptyLiteralIsNoOp ==
    (pc \in {"replaced", "done"} /\ text_to_remove = <<>>) =>
        /\ cleaned_contents = file_contents
        /\ pc = "done" => output = file_contents

\* C10 witness: a run with the empty removal text has rewritten a
\* two-block document unchanged.
C10_Witness ==
    /\ pc = "done"
    /\ text_to_remove = <<>>
    /\ Len(blocks) = 2
    /\ file_contents # <<>>
    /\ output = file_contents

===========================================================================
